---------------------------- MODULE Spec2Model ----------------------------
(***************************************************************************)
(* Model of the blog-entry REST service (src/src/main.rs).                 *)
(*                                                                         *)
(* Text is a sequence of one-character strings; the literal fragments that *)
(* format!() contributes are kept as single tokens.  A timestamp in a      *)
(* request body is a local time plus a UTC offset; DateTime<Utc> is the    *)
(* instant local - offset.                                                 *)
(***************************************************************************)
EXTENDS Integers, Sequences, FiniteSets

(***************************************************************************)
(* Bounds of the model.                                                    *)
(***************************************************************************)
\* number of HTTP requests the server receives in one run
MaxReq == 3

(***************************************************************************)
(* Program constants.                                                      *)
(***************************************************************************)
\* #[validate(length(min = 10, max = 100, ...))] title
TitleMin == 10
TitleMax == 100
\* #[validate(length(min = 10, ...))] text
TextMin == 10
\* the three status codes the handlers produce
OK200 == 200
BAD_REQUEST == 400
INTERNAL_SERVER_ERROR == 500

NL == "\n"

\* n copies of the character c
Rep(c, n) == [i \in 1..n |-> c]

(***************************************************************************)
(* BlogEntry and its derived validation.                                   *)
(***************************************************************************)
Fields == <<"created", "title", "author", "text">>

BlogEntry(created, title, author, text) ==
    [created |-> created, title |-> title, author |-> author, text |-> text]

NoEntry == BlogEntry(0, <<>>, <<>>, <<>>)

TitleMessage == "Title length must be between 10 and 100"
AuthorMessage == "author must be a valid email address"
TextMessage == "text length must be at least 10"

\* validator::validate_length with optional min and max (max < 0: no max)
validate_length(s, min, max) ==
    IF Len(s) < min THEN FALSE
    ELSE IF max >= 0 /\ Len(s) > max THEN FALSE
    ELSE TRUE

Alnum == {"a", "b", "c", "m", "o"}
UserChars == Alnum \cup {".", "-", "+", "_"}
LabelChars == Alnum \cup {"-"}

\* position of the last '@' of s, 0 when there is none (rsplitn(2, '@'))
LastAt(s) ==
    LET at == {i \in 1..Len(s) : s[i] = "@"}
    IN IF at = {} THEN 0 ELSE CHOOSE i \in at : \A j \in at : j <= i

\* one or more labels separated by '.', each starting and ending alphanumeric
ValidDomain(d) ==
    /\ Len(d) >= 1
    /\ Len(d) <= 255
    /\ \A i \in 1..Len(d) : d[i] \in LabelChars \cup {"."}
    /\ \A i \in 1..Len(d) :
          d[i] \in {".", "-"} =>
             /\ i > 1
             /\ i < Len(d)
             /\ d[i] = "." => (d[i-1] \in Alnum /\ d[i+1] \in Alnum)
             /\ d[i] = "-" => (d[i-1] # "." /\ d[i+1] # ".")

\* validator::validate_email: user@domain split at the last '@'
validate_email(s) ==
    LET k == LastAt(s)
        user == SubSeq(s, 1, k - 1)
        domain == SubSeq(s, k + 1, Len(s))
    IN /\ Len(s) > 0
       /\ k > 0
       /\ Len(user) >= 1
       /\ Len(user) <= 64
       /\ \A i \in 1..Len(user) : user[i] \in UserChars
       /\ ValidDomain(domain)

\* ValidationErrors::add: one more failure entry, keyed by field
AddError(errors, field, code, message, value) ==
    errors \cup {[field |-> field, code |-> code, message |-> message,
                  value |-> value]}

CheckTitle(e, errors) ==
    IF ~validate_length(e.title, TitleMin, TitleMax)
    THEN AddError(errors, "title", "length", TitleMessage, e.title)
    ELSE errors

CheckAuthor(e, errors) ==
    IF ~validate_email(e.author)
    THEN AddError(errors, "author", "email", AuthorMessage, e.author)
    ELSE errors

CheckText(e, errors) ==
    IF ~validate_length(e.text, TextMin, -1)
    THEN AddError(errors, "text", "length", TextMessage, e.text)
    ELSE errors

\* a validation that stops at the first violated field
ValidateFirstOnly(e) ==
    IF CheckTitle(e, {}) # {} THEN CheckTitle(e, {})
    ELSE IF CheckAuthor(e, {}) # {} THEN CheckAuthor(e, {})
    ELSE CheckText(e, {})

\* <BlogEntry as Validate>::validate: every check runs, failures accumulate;
\* the result is Ok exactly when the returned set is empty
Validate(e) ==
    CheckText(e, CheckAuthor(e, CheckTitle(e, {})))


(***************************************************************************)
(* Request bodies and the Json extractor.                                  *)
(***************************************************************************)
FieldSet == {Fields[i] : i \in 1..Len(Fields)}

\* a timestamp as written in a body: parseable or not, local time, offset
Timestamp(ok, local, off) == [ok |-> ok, local |-> local, off |-> off]

\* a request: Content-Type is JSON or not, the body is JSON text or not, and
\* the members the object has
Payload(ctype, syntax, present, created, title, author, text) ==
    [ctype |-> ctype, syntax |-> syntax, present |-> present,
     created |-> created, title |-> title, author |-> author, text |-> text]

\* DateTime<Utc> from an RFC 3339 text: the instant, normalised to UTC
ParseDateTime(ts) == ts.local - ts.off

NoError == [kind |-> "none", rejection |-> "none", errors |-> {}]

AxumFormRejection(r) ==
    [kind |-> "AxumFormRejection", rejection |-> r, errors |-> {}]

ValidationError(errors) ==
    [kind |-> "ValidationError", rejection |-> "none", errors |-> errors]

Ok(v) == [ok |-> TRUE, value |-> v, err |-> NoError]

Err(e) == [ok |-> FALSE, value |-> NoEntry, err |-> e]

\* a decoder that fills a missing member with its default value
ExtractJsonDefaulting(p) ==
    IF ~p.ctype THEN Err(AxumFormRejection("MissingJsonContentType"))
    ELSE IF ~p.syntax THEN Err(AxumFormRejection("JsonSyntaxError"))
    ELSE IF "created" \in p.present /\ ~p.created.ok
         THEN Err(AxumFormRejection("JsonDataError"))
    ELSE Ok(BlogEntry(
            IF "created" \in p.present THEN ParseDateTime(p.created) ELSE 0,
            IF "title" \in p.present THEN p.title ELSE <<>>,
            IF "author" \in p.present THEN p.author ELSE <<>>,
            IF "text" \in p.present THEN p.text ELSE <<>>))

\* ExtractJson::<BlogEntry>::from_request: the content type, then the JSON
\* syntax, then the members of BlogEntry (all four are required)
ExtractJson(p) ==
    IF ~p.ctype THEN Err(AxumFormRejection("MissingJsonContentType"))
    ELSE IF ~p.syntax THEN Err(AxumFormRejection("JsonSyntaxError"))
    ELSE IF p.present # FieldSet \/ ~p.created.ok
         THEN Err(AxumFormRejection("JsonDataError"))
    ELSE Ok(BlogEntry(ParseDateTime(p.created), p.title, p.author, p.text))

\* an extractor that forgets to validate
FromRequestUnvalidated(p) ==
    ExtractJson(p)

\* ValidatedJson::from_request: decode, `?`, validate, `?`, Ok
FromRequest(p) ==
    LET json == ExtractJson(p)
    IN IF ~json.ok THEN json
       ELSE IF Validate(json.value) # {}
            THEN Err(ValidationError(Validate(json.value)))
       ELSE Ok(json.value)

(***************************************************************************)
(* Responses.                                                              *)
(***************************************************************************)
Response(status, text, entries) ==
    [status |-> status, text |-> text, entries |-> entries]

NoResponse == Response(0, <<>>, <<>>)

\* {:?} of a str: a line break is written as the two characters \ and n
DebugStr(s) == [i \in 1..Len(s) |-> IF s[i] = NL THEN "\\n" ELSE s[i]]

\* {:?} of one field's entry of ValidationErrors
DebugFieldError(e) ==
    <<"\"", e.field, "\": Field([ValidationError { code: \"", e.code, "\"",
      ", ", "message: Some(\"", e.message, "\")", ", ",
      "params: {\"value\": String(\"">>
    \o DebugStr(e.value) \o <<"\")} }])">>

\* the entries in the order the map iterates them, separated by ", "
RECURSIVE DebugFieldErrors(_, _)
DebugFieldErrors(errors, order) ==
    IF order = <<>> THEN <<>>
    ELSE LET e == CHOOSE x \in errors : x.field = Head(order)
         IN DebugFieldError(e)
            \o (IF Len(order) > 1 THEN <<", ">> ELSE <<>>)
            \o DebugFieldErrors(errors, Tail(order))

\* {:?} of ServerError::ValidationError(ValidationErrors(map))
DebugServerError(err, order) ==
    <<"ValidationError(ValidationErrors({">>
    \o DebugFieldErrors(err.errors, order) \o <<"}))">>

\* str::replace(from, to) on tokens
Replace(s, from, to) == [i \in 1..Len(s) |-> IF s[i] = from THEN to ELSE s[i]]

\* a replace with its two arguments exchanged
FlattenSwapped(s) == Replace(s, ", ", NL)

\* .replace('\n', ", ")
Flatten(s) == Replace(s, NL, ", ")

\* Display of ServerError (#[error(transparent)]): the rejection's own text
to_string(err) == <<err.rejection>>

\* the iteration orders of the error map: every ordering of its keys
Orders(errors) ==
    LET keys == {e.field : e \in errors}
        n == Cardinality(keys)
    IN {o \in [1..n -> keys] : \A i, j \in 1..n : i # j => o[i] # o[j]}

\* a mapper that answers a validation failure with 422
IntoResponseUnprocessable(err, order) ==
    IF err.kind = "ValidationError"
    THEN Response(422,
                  Flatten(<<"Input validation error: [">>
                          \o DebugServerError(err, order) \o <<"]">>),
                  <<>>)
    ELSE Response(BAD_REQUEST, to_string(err), <<>>)

\* ServerError::into_response
IntoResponse(err, order) ==
    IF err.kind = "ValidationError"
    THEN Response(BAD_REQUEST,
                  Flatten(<<"Input validation error: [">>
                          \o DebugServerError(err, order) \o <<"]">>),
                  <<>>)
    ELSE Response(BAD_REQUEST, to_string(err), <<>>)

\* a mapper that hides the error's text
InternalErrorGeneric(err) ==
    Response(INTERNAL_SERVER_ERROR, <<"internal server error">>, <<>>)

\* internal_error: any error into 500 with its text
internal_error(err) == Response(INTERNAL_SERVER_ERROR, <<err>>, <<>>)

\* Json(String): the text as a JSON string
JsonString(s) == <<"\"", s, "\"">>


(***************************************************************************)
(* Storage: the blog_entry table and the two statements the handlers send. *)
(***************************************************************************)
\* .bind(blog.author) before .bind(blog.title)
BindsSwapped(blog) == <<blog.created, blog.author, blog.title, blog.text>>

\* .bind(blog.created).bind(blog.title).bind(blog.author).bind(blog.text)
Binds(blog) == <<blog.created, blog.title, blog.author, blog.text>>

\* an insert that is sent a second time
InsertRowTwice(table, binds) ==
    Append(Append(table, BlogEntry(binds[1], binds[2], binds[3], binds[4])),
           BlogEntry(binds[1], binds[2], binds[3], binds[4]))

\* insert into blog_entry (created, title, author, text) values ($1,$2,$3,$4)
InsertRow(table, binds) ==
    Append(table, BlogEntry(binds[1], binds[2], binds[3], binds[4]))

\* the orderings of a table's rows
RowOrders(table) ==
    LET n == Len(table)
    IN {[i \in 1..n |-> table[f[i]]] :
          f \in {g \in [1..n -> 1..n] : \A i, j \in 1..n : i # j => g[i] # g[j]}}

\* select created, title, author, text from blog_entry: the statement has no
\* ORDER BY, so the rows come back in whatever order the database produces
SelectAll(table) == RowOrders(table)

\* the texts of the errors a storage call can fail with
StorageErrors == {"pool timed out while waiting for an open connection",
                  "error returned from database"}

DbOk(rows) == [ok |-> TRUE, rows |-> rows, err |-> "none"]

DbErr(e) == [ok |-> FALSE, rows |-> <<>>, err |-> e]

NoDb == DbErr("none")

(***************************************************************************)
(* Startup: the schema script.                                             *)
(***************************************************************************)
\* str::split(";"): the pieces between the delimiters, empty ones included
RECURSIVE Split(_)
Split(s) ==
    LET semi == {i \in 1..Len(s) : s[i] = ";"}
    IN IF semi = {} THEN <<s>>
       ELSE LET k == CHOOSE i \in semi : \A j \in semi : i <= j
            IN <<SubSeq(s, 1, k - 1)>> \o Split(SubSeq(s, k + 1, Len(s)))

\* the contents create_database.sql may have: statements written to be
\* re-runnable, separated (and possibly ended) by ';'
Scripts ==
    {<<"create table if not exists blog_entry">>,
     <<"create table if not exists blog_entry", ";",
       "create index if not exists blog_entry_created", ";">>}

(***************************************************************************)
(* Inputs.                                                                 *)
(***************************************************************************)
TitleLens == {0, 5, 9, 10, 20, 100, 101}
TextLens == {0, 9, 10, 15}

Titles == {Rep("t", n) : n \in TitleLens} \cup {<<"t", NL, "t", "t", "t">>}

Texts ==
    {Rep("x", n) : n \in TextLens}
    \cup {<<"x", NL, "x", "x", "x", "x", "x", "x", "x">>,
          <<"x", "x", "x", "x", "x", NL, "x", "x", "x", "x", "x">>}

Authors ==
    {<<"a", "@", "b", ".", "c", "o", "m">>,
     <<"a", "@", "b">>,
     <<"a", ".", "b", "+", "c", "@", "a", "-", "b", ".", "c", "o">>,
     <<"a", "b">>,
     <<>>,
     <<"@", "b">>,
     <<"a", "@">>,
     <<"a", "@", "b", "@", "c">>,
     <<"a", NL, "@", "b">>,
     <<"a", "@", "-", "b">>,
     <<"a", "@", "b", ".", ".", "c">>,
     <<"a", " ", "@", "b">>}

Createds ==
    {Timestamp(TRUE, 5, 0), Timestamp(TRUE, 5, 2), Timestamp(FALSE, 0, 0)}

\* bodies that are a JSON object with all four members
FullPayloads ==
    {Payload(TRUE, TRUE, FieldSet, c, t, a, x) :
        c \in Createds, t \in Titles, a \in Authors, x \in Texts}

\* bodies with a member missing, bodies that are not JSON, requests without
\* the JSON content type
BrokenPayloads ==
    {Payload(ct, sy, pr, Timestamp(TRUE, 5, 0), t,
             <<"a", "@", "b", ".", "c", "o", "m">>, x) :
        ct \in BOOLEAN, sy \in BOOLEAN, pr \in SUBSET FieldSet,
        t \in {Rep("t", 5), Rep("t", 20)}, x \in {Rep("x", 9), Rep("x", 15)}}

ExtractInputs == FullPayloads \cup BrokenPayloads

NoPayload == Payload(FALSE, FALSE, {}, Timestamp(FALSE, 0, 0), <<>>, <<>>, <<>>)

ValidAuthor == <<"a", "@", "b", ".", "c", "o", "m">>

\* the bodies the server is sent: two valid entries, one that violates two
\* constraints, one with a member missing
ServerPayloads ==
    {Payload(TRUE, TRUE, FieldSet, Timestamp(TRUE, 5, 2), Rep("t", 20),
             ValidAuthor, Rep("x", 15)),
     Payload(TRUE, TRUE, FieldSet, Timestamp(TRUE, 7, 0), Rep("t", 10),
             ValidAuthor, Rep("x", 10)),
     Payload(TRUE, TRUE, FieldSet, Timestamp(TRUE, 5, 0), Rep("t", 5),
             <<"a", NL, "@", "b">>, Rep("x", 15)),
     Payload(TRUE, TRUE, FieldSet \ {"text"}, Timestamp(TRUE, 5, 0),
             Rep("t", 5), ValidAuthor, <<>>)}

(***************************************************************************)
(* State.                                                                  *)
(***************************************************************************)
VARIABLES
    mainpc,      \* where main() is: "connect", "script", "serving", "aborted"
    script,      \* the text of create_database.sql
    executed,    \* the statements of the script run so far, with their outcome
    blog_entry,  \* the rows of table blog_entry, in the order they were stored
    req,         \* the requests: method, position in the handler, data, and
                 \* the statements the handler sent to the pool
    ext          \* one run of the extractor on its own

vars == <<mainpc, script, executed, blog_entry, req, ext>>

serverVars == <<mainpc, script, executed, blog_entry, req>>

ReqIds == 1..MaxReq

IdleReq ==
    [method |-> "none", pc |-> "idle", payload |-> NoPayload,
     blog |-> NoEntry, calls |-> <<>>, db |-> NoDb, resp |-> NoResponse]

ExtOff ==
    [pc |-> "off", input |-> NoPayload, out |-> Err(NoError),
     resp |-> NoResponse]

Init ==
    /\ mainpc = "connect"
    /\ script \in Scripts
    /\ executed = <<>>
    /\ blog_entry = <<>>
    /\ req = [r \in ReqIds |-> IdleReq]
    /\ ext = ExtOff

(***************************************************************************)
(* main()                                                                  *)
(***************************************************************************)
\* PgPoolOptions::connect(..).await.expect("can't connect to database")
Connect ==
    /\ mainpc = "connect"
    /\ mainpc' \in {"script", "aborted"}
    /\ UNCHANGED <<script, executed, blog_entry, req, ext>>

\* a startup that carries on after a failed statement
ExpectIgnored(ok) == "script"

\* .expect("error running script"): a failed statement panics
Expect(ok) == IF ok THEN "script" ELSE "aborted"

\* one turn of `for statement in statements`
RunStatement ==
    /\ mainpc = "script"
    /\ Len(executed) < Len(Split(script))
    /\ \E ok \in BOOLEAN :
          /\ executed' = Append(executed,
                 [statement |-> Split(script)[Len(executed) + 1], ok |-> ok])
          /\ mainpc' = Expect(ok)
    /\ UNCHANGED <<script, blog_entry, req, ext>>

\* after the loop: axum::Server::bind(&addr).serve(..), which panics when the
\* address cannot be bound
Serve ==
    /\ mainpc = "script"
    /\ Len(executed) = Len(Split(script))
    /\ mainpc' \in {"serving", "aborted"}
    /\ UNCHANGED <<script, executed, blog_entry, req, ext>>

(***************************************************************************)
(* Requests.                                                               *)
(***************************************************************************)
\* the router hands a request to its handler: GET to get_blogs, POST to
\* add_blog; only a bound, serving server accepts requests
Arrive(r) ==
    /\ mainpc = "serving"
    /\ req[r].pc = "idle"
    /\ \A q \in ReqIds : q < r => req[q].pc # "idle"
    /\ \E m \in {"GET", "POST"} :
       \E p \in (IF m = "POST" THEN ServerPayloads ELSE {NoPayload}) :
          req' = [req EXCEPT ![r] =
                    [@ EXCEPT !.method = m, !.payload = p,
                              !.pc = IF m = "POST" THEN "extract"
                                     ELSE "storage"]]
    /\ UNCHANGED <<mainpc, script, executed, blog_entry, ext>>

\* add_blog's extractor ValidatedJson<BlogEntry>: a rejection is the response
AddBlogExtract(r) ==
    /\ req[r].method = "POST"
    /\ req[r].pc = "extract"
    /\ LET x == FromRequest(req[r].payload)
       IN IF x.ok
          THEN req' = [req EXCEPT ![r] =
                         [@ EXCEPT !.blog = x.value, !.pc = "storage"]]
          ELSE \E order \in Orders(x.err.errors) :
                  req' = [req EXCEPT ![r] =
                            [@ EXCEPT !.resp = IntoResponse(x.err, order),
                                      !.pc = "done"]]
    /\ UNCHANGED <<mainpc, script, executed, blog_entry, ext>>

\* add_blog: sqlx::query("insert ...").bind(..).execute(&pool).await
\* The statement is a single autocommitted INSERT: it either stores the row
\* and returns Ok, or returns an error and stores nothing.
AddBlogExecute(r) ==
    /\ req[r].method = "POST"
    /\ req[r].pc = "storage"
    /\ \E res \in {DbOk(<<>>)} \cup {DbErr(e) : e \in StorageErrors} :
          /\ blog_entry' = IF res.ok
                           THEN InsertRow(blog_entry, Binds(req[r].blog))
                           ELSE blog_entry
          /\ req' = [req EXCEPT ![r] =
                       [@ EXCEPT !.db = res, !.pc = "respond",
                                 !.calls = Append(@,
                                    [op |-> "insert",
                                     binds |-> Binds(req[r].blog),
                                     ok |-> res.ok])]]
    /\ UNCHANGED <<mainpc, script, executed, ext>>

\* add_blog: .map_err(internal_error)?; Ok(Json("created".to_owned()))
AddBlogReturn(r) ==
    /\ req[r].method = "POST"
    /\ req[r].pc = "respond"
    /\ req' = [req EXCEPT ![r] =
                 [@ EXCEPT !.resp = IF req[r].db.ok
                                    THEN Response(OK200, JsonString("created"),
                                                  <<>>)
                                    ELSE internal_error(req[r].db.err),
                           !.pc = "done"]]
    /\ UNCHANGED <<mainpc, script, executed, blog_entry, ext>>

\* get_blogs: sqlx::query_as("select ...").fetch_all(&pool).await
GetBlogsFetch(r) ==
    /\ req[r].method = "GET"
    /\ req[r].pc = "storage"
    /\ \E res \in {DbOk(rows) : rows \in SelectAll(blog_entry)}
                  \cup {DbErr(e) : e \in StorageErrors} :
          req' = [req EXCEPT ![r] =
                    [@ EXCEPT !.db = res, !.pc = "respond",
                              !.calls = Append(@,
                                 [op |-> "select", binds |-> <<>>,
                                  ok |-> res.ok])]]
    /\ UNCHANGED <<mainpc, script, executed, blog_entry, ext>>

\* get_blogs: .map(|r| Json(r)).map_err(internal_error)
GetBlogsReturn(r) ==
    /\ req[r].method = "GET"
    /\ req[r].pc = "respond"
    /\ req' = [req EXCEPT ![r] =
                 [@ EXCEPT !.resp = IF req[r].db.ok
                                    THEN Response(OK200, <<>>, req[r].db.rows)
                                    ELSE internal_error(req[r].db.err),
                           !.pc = "done"]]
    /\ UNCHANGED <<mainpc, script, executed, blog_entry, ext>>

Next ==
    \/ Connect
    \/ RunStatement
    \/ Serve
    \/ \E r \in ReqIds : Arrive(r)
    \/ \E r \in ReqIds : AddBlogExtract(r)
    \/ \E r \in ReqIds : AddBlogExecute(r)
    \/ \E r \in ReqIds : AddBlogReturn(r)
    \/ \E r \in ReqIds : GetBlogsFetch(r)
    \/ \E r \in ReqIds : GetBlogsReturn(r)

Spec == Init /\ [][Next]_vars

(***************************************************************************)
(* The extractor and the error mapper on their own, over every input.      *)
(***************************************************************************)
InitExtract ==
    /\ mainpc = "connect"
    /\ script \in Scripts
    /\ executed = <<>>
    /\ blog_entry = <<>>
    /\ req = [r \in ReqIds |-> IdleReq]
    /\ ext \in {[ExtOff EXCEPT !.pc = "start", !.input = p] : p \in ExtractInputs}

\* ValidatedJson::<BlogEntry>::from_request(req).await
ExtFromRequest ==
    /\ ext.pc = "start"
    /\ ext' = [ext EXCEPT !.out = FromRequest(ext.input),
                          !.pc = IF FromRequest(ext.input).ok THEN "accepted"
                                 ELSE "rejected"]
    /\ UNCHANGED serverVars

\* the rejection turned into the response
ExtIntoResponse ==
    /\ ext.pc = "rejected"
    /\ \E order \in Orders(ext.out.err.errors) :
          ext' = [ext EXCEPT !.resp = IntoResponse(ext.out.err, order),
                             !.pc = "responded"]
    /\ UNCHANGED serverVars

NextExtract ==
    \/ ExtFromRequest
    \/ ExtIntoResponse

SpecExtract == InitExtract /\ [][NextExtract]_vars


(***************************************************************************)
(* The properties.  The constraints are written out here as the            *)
(* specification states them, not in terms of the operators above.         *)
(***************************************************************************)
TitleOk(t) == Len(t) >= 10 /\ Len(t) <= 100

TextOk(x) == Len(x) >= 10

\* one '@'; before it a non-empty run of address characters; after it labels
\* of letters and hyphens, separated by '.', none empty, none starting or
\* ending with a hyphen
IsEmailAddress(a) ==
    \E k \in 1..Len(a) :
       /\ a[k] = "@"
       /\ \A i \in 1..Len(a) : a[i] = "@" => i = k
       /\ k > 1
       /\ k < Len(a)
       /\ \A i \in 1..(k - 1) :
             a[i] \in {"a", "b", "c", "m", "o", ".", "-", "+", "_"}
       /\ \A i \in (k + 1)..Len(a) :
             /\ a[i] \in {"a", "b", "c", "m", "o", ".", "-"}
             /\ a[i] = "." =>
                   /\ i > k + 1
                   /\ i < Len(a)
                   /\ a[i - 1] \notin {".", "-"}
                   /\ a[i + 1] \notin {".", "-"}
             /\ a[i] = "-" => (i > k + 1 /\ i < Len(a))

RowValid(row) ==
    TitleOk(row.title) /\ IsEmailAddress(row.author) /\ TextOk(row.text)

\* the body is a JSON object with the four members and a readable timestamp
Decodes(p) ==
    p.ctype /\ p.syntax /\ p.present = {"created", "title", "author", "text"}
    /\ p.created.ok

\* the entry a decodable body encodes
EntryOf(p) ==
    [created |-> p.created.local - p.created.off, title |-> p.title,
     author |-> p.author, text |-> p.text]

ViolatedFields(e) ==
    {f \in {"title", "author", "text"} :
        \/ f = "title" /\ ~TitleOk(e.title)
        \/ f = "author" /\ ~IsEmailAddress(e.author)
        \/ f = "text" /\ ~TextOk(e.text)}

Accepted(p) == Decodes(p) /\ ViolatedFields(EntryOf(p)) = {}

Posts == {r \in ReqIds : req[r].method = "POST"}

Gets == {r \in ReqIds : req[r].method = "GET"}

Done(r) == req[r].pc = "done"

\* C1: every stored row satisfies all three field constraints at once; no
\* row violating one of them is ever persisted.
C1_StoredRowsValid ==
    \A i \in 1..Len(blog_entry) : RowValid(blog_entry[i])

\* rows are stored and a violating POST has been answered
C1_Witness ==
    /\ Len(blog_entry) >= 2
    /\ \E r \in Posts :
          /\ Done(r)
          /\ Decodes(req[r].payload)
          /\ ViolatedFields(EntryOf(req[r].payload)) # {}

\* C2: a POST whose body decodes and validates and whose insert succeeds
\* called the insert exactly once, with (created, title, author, text) of the
\* request in that order, and is answered 200 with the JSON string "created".
C2_InsertOnceInOrder ==
    \A r \in Posts :
       (Accepted(req[r].payload) /\ req[r].pc \in {"respond", "done"}
        /\ req[r].db.ok) =>
          /\ Len(req[r].calls) = 1
          /\ req[r].calls[1].op = "insert"
          /\ req[r].calls[1].binds =
                <<EntryOf(req[r].payload).created, req[r].payload.title,
                  req[r].payload.author, req[r].payload.text>>
          /\ \E i \in 1..Len(blog_entry) :
                blog_entry[i] = EntryOf(req[r].payload)
          /\ Done(r) =>
                /\ req[r].resp.status = 200
                /\ req[r].resp.text = <<"\"", "created", "\"">>

\* a POST was answered 200 after its insert, its timestamp given with an offset
C2_Witness ==
    \E r \in Posts :
       /\ Done(r)
       /\ req[r].resp.status = 200
       /\ req[r].payload.created.off # 0

\* C3 (state): a POST whose body does not decode or does not validate is
\* answered 400 and made no storage call.
C3_RejectedState ==
    \A r \in Posts :
       ~Accepted(req[r].payload) =>
          /\ req[r].calls = <<>>
          /\ req[r].pc \in {"extract", "done"}
          /\ Done(r) => req[r].resp.status = 400

\* C3 (step): the step that rejects a POST leaves the stored rows as they are.
C3_RejectedStep ==
    \A r \in ReqIds :
       (req[r].method = "POST" /\ ~Accepted(req[r].payload)
        /\ req'[r] # req[r]) => blog_entry' = blog_entry

\* C3: a POST that fails to decode or to validate is answered 400, never
\* calls the storage, and leaves the stored rows unchanged.
C3_RejectedPost == [](C3_RejectedState) /\ [][C3_RejectedStep]_vars

\* rows are stored, and both a body that does not decode and one that does
\* not validate have been answered
C3_Witness ==
    /\ Len(blog_entry) >= 1
    /\ \E r \in Posts : Done(r) /\ ~Decodes(req[r].payload)
    /\ \E r \in Posts :
          /\ Done(r)
          /\ Decodes(req[r].payload)
          /\ ~Accepted(req[r].payload)

\* C4: a failed storage call is answered 500 with the storage error's text,
\* for GET and for POST, and no request makes more than one storage call.
C4_StorageFailure ==
    \A r \in ReqIds :
       /\ Len(req[r].calls) <= 1
       /\ (Len(req[r].calls) = 1 /\ ~req[r].calls[1].ok) =>
             /\ req[r].db.err \in StorageErrors
             /\ Done(r) =>
                   /\ req[r].resp.status = 500
                   /\ req[r].resp.text = <<req[r].db.err>>

\* a GET and a POST have both been answered after their storage call failed
C4_Witness ==
    /\ \E r \in Gets : Done(r) /\ ~req[r].db.ok
    /\ \E r \in Posts : Done(r) /\ Len(req[r].calls) = 1 /\ ~req[r].db.ok

\* C5: the fields named in the validation failure are exactly the fields
\* whose constraint is violated, and validation succeeds exactly when there
\* is none.
C5_EveryViolationReported ==
    (ext.pc \in {"accepted", "rejected", "responded"} /\ Decodes(ext.input)) =>
       /\ {e.field : e \in ext.out.err.errors}
             = ViolatedFields(EntryOf(ext.input))
       /\ ext.out.ok <=> ViolatedFields(EntryOf(ext.input)) = {}
       /\ Cardinality(ext.out.err.errors)
             = Cardinality(ViolatedFields(EntryOf(ext.input)))

\* an entry violating all three constraints has been validated
C5_Witness ==
    /\ ext.pc = "rejected"
    /\ Cardinality(ext.out.err.errors) = 3

\* C6: a body that does not decode yields the decode error, never the
\* validation error; one that decodes but violates a constraint yields the
\* validation error; the Entry is returned only if both stages succeed.
C6_TwoStages ==
    ext.pc \in {"accepted", "rejected", "responded"} =>
       /\ ~Decodes(ext.input) =>
             ~ext.out.ok /\ ext.out.err.kind = "AxumFormRejection"
       /\ (Decodes(ext.input) /\ ViolatedFields(EntryOf(ext.input)) # {}) =>
             ~ext.out.ok /\ ext.out.err.kind = "ValidationError"
       /\ ext.out.ok =>
             /\ Accepted(ext.input)
             /\ ext.out.value = EntryOf(ext.input)
       /\ Accepted(ext.input) => ext.out.ok

\* a body with a member missing, whose title is too short as well, yielded
\* the decode error
C6_Witness ==
    /\ ext.pc = "rejected"
    /\ ext.input.ctype
    /\ ext.input.syntax
    /\ ext.input.present = {"created", "title", "author"}
    /\ Len(ext.input.title) = 5
    /\ ext.out.err.kind = "AxumFormRejection"

\* C7: a successful GET returns exactly the rows stored at the time of its
\* fetch, in the order of their insertion (an empty array for an empty table).
C7_InsertionOrder ==
    [][\A r \in ReqIds :
          (req[r].method = "GET" /\ req[r].pc = "storage"
           /\ req'[r].pc = "respond" /\ req'[r].db.ok)
             => req'[r].db.rows = blog_entry]_vars

\* C8: the statements run are the pieces of the script between its ';', in
\* order, each once; a failed statement aborts the process; the server serves,
\* and requests are handled, only after every statement has succeeded.
C8_Startup ==
    LET semis == Cardinality({i \in 1..Len(script) : script[i] = ";"})
        AllOk == \A i \in 1..Len(executed) : executed[i].ok
        Pieces == [i \in 1..Len(executed) |-> executed[i].statement]
        RECURSIVE Join(_)
        Join(ps) == IF Len(ps) = 1 THEN ps[1]
                    ELSE ps[1] \o <<";">> \o Join(Tail(ps))
    IN /\ Len(executed) <= semis + 1
       /\ \A i \in 1..Len(executed) :
             \A j \in 1..Len(executed[i].statement) :
                executed[i].statement[j] # ";"
       /\ Len(executed) = semis + 1 => Join(Pieces) = script
       /\ \A i \in 1..Len(executed) :
             ~executed[i].ok => (i = Len(executed) /\ mainpc = "aborted")
       /\ mainpc = "serving" => (Len(executed) = semis + 1 /\ AllOk)
       /\ mainpc = "connect" => executed = <<>>
       /\ (\E r \in ReqIds : req[r].pc # "idle") =>
             (mainpc = "serving" /\ Len(executed) = semis + 1 /\ AllOk)

\* a script of three pieces has run and a request has been answered
C8_Witness ==
    /\ mainpc = "serving"
    /\ Len(executed) = 3
    /\ \E r \in ReqIds : Done(r)

\* C9: the message of a validation-failure response contains no line break.
C9_SingleLine ==
    (ext.pc = "responded" /\ ext.out.err.kind = "ValidationError") =>
       /\ ext.resp.status = 400
       /\ Len(ext.resp.text) > 0
       /\ \A i \in 1..Len(ext.resp.text) : ext.resp.text[i] # "\n"

\* a validation failure whose offending value holds a line break was answered
C9_Witness ==
    /\ ext.pc = "responded"
    /\ ext.out.err.kind = "ValidationError"
    /\ \E e \in ext.out.err.errors : \E i \in 1..Len(e.value) : e.value[i] = "\n"

\* the number of times x occurs in the table
Count(x, table) == Cardinality({i \in 1..Len(table) : table[i] = x})

\* C10 (state): once every request is answered, the stored rows are exactly
\* the multiset of the entries of the POSTs answered 200.
C10_FinalRows ==
    (\A r \in ReqIds : req[r].pc \in {"idle", "done"}) =>
       /\ \A p \in ServerPayloads :
             Decodes(p) =>
                Count(EntryOf(p), blog_entry) =
                   Cardinality({r \in Posts : /\ req[r].resp.status = 200
                                              /\ EntryOf(req[r].payload)
                                                    = EntryOf(p)})
       /\ Len(blog_entry) =
             Cardinality({r \in Posts : req[r].resp.status = 200})

\* C10 (step): a step of a GET or of a failing POST leaves the rows as they
\* are; the successful insert of a POST appends that POST's entry and nothing
\* else; no stored row is ever altered or removed.
C10_AppendOnly ==
    /\ \A r \in ReqIds :
          req'[r] # req[r] =>
             IF /\ req[r].method = "POST"
                /\ req[r].pc = "storage"
                /\ req'[r].db.ok
             THEN blog_entry' = Append(blog_entry, EntryOf(req[r].payload))
             ELSE blog_entry' = blog_entry
    /\ req' = req => blog_entry' = blog_entry

\* C10: requests are independent and storage is append-only.
C10_Independent == [](C10_FinalRows) /\ [][C10_AppendOnly]_vars

\* every request is answered: two POSTs stored their entry, one failed
C10_Witness ==
    /\ \A r \in ReqIds : Done(r)
    /\ Len(blog_entry) = 2
    /\ \E r \in Posts : req[r].resp.status = 500

=============================================================================
